---- MODULE Spec2Model ----
(***************************************************************************)
(* A model of the Hanjie (nonogram) solver of scl94/hanjie.                *)
(*                                                                         *)
(*   src/linesolver.py  LineSolver: does one partially filled line admit   *)
(*                      an arrangement of its clue's blocks?               *)
(*   src/hanjie.py      Hanjie: the grid, the dirty flags and the          *)
(*                      propagation loop solve().                          *)
(*                                                                         *)
(* Cells are encoded as in the source: 0 undetermined, 1 filled,           *)
(* -1 definitely unfilled.  Lines, grid rows and the dirty-flag lists are  *)
(* 0-based arrays, as in the source; a clue list is a sequence, and        *)
(* clues[k] of the source is Clue(clues, k) here.                          *)
(***************************************************************************)
EXTENDS Integers, Sequences, FiniteSets

VARIABLES
    \* the Hanjie object (hanjie.py, __init__)
    width, height, grid, row_clues, col_clues, rows_to_check, cols_to_check,
    \* the control state of solve()
    pc, idx, made_change,
    \* one call of _check_consistency / _make_deductions on a free-standing line
    line, clues, lpc, result,
    \* the locals of has_solution when it is followed step by step
    search_stack, search_node,
    \* history of the run (what has been probed so far), and the complete
    \* grids that satisfy the puzzle's clues
    hist, sols

hanjieVars == <<width, height, grid, row_clues, col_clues, rows_to_check, cols_to_check>>
solveVars == <<pc, idx, made_change>>
lineVars == <<line, clues, lpc, result, search_stack, search_node>>
vars == <<width, height, grid, row_clues, col_clues, rows_to_check, cols_to_check,
          pc, idx, made_change, line, clues, lpc, result, search_stack, search_node,
          hist, sols>>

(***************************************************************************)
(* Bounds of the model.                                                    *)
(***************************************************************************)
\* longest free-standing line given to the line solver
MaxLen == 5
\* largest height and width of a puzzle grid
MaxDim == 2
\* number of times solve() is called on one puzzle object
MaxCalls == 2

(***************************************************************************)
(* Helpers on arrays and sequences.                                        *)
(***************************************************************************)
Array(n, v) == [i \in 0..(n - 1) |-> v]

LineLen(l) == Cardinality(DOMAIN l)

Clue(cl, k) == cl[k + 1]

RECURSIVE Reversed(_)
Reversed(s) == IF s = <<>> THEN <<>> ELSE Append(Reversed(Tail(s)), Head(s))

Min(a, b) == IF a <= b THEN a ELSE b

RECURSIVE SumSeq(_)
SumSeq(s) == IF s = <<>> THEN 0 ELSE Head(s) + SumSeq(Tail(s))

(***************************************************************************)
(* linesolver.py: LineSolver.__init__                                      *)
(***************************************************************************)
\* self._line: a copy of the line with an extra empty cell appended
SolverLine(l) ==
    [i \in 0..LineLen(l) |-> IF i < LineLen(l) THEN l[i] ELSE -1]

\* self._length_suffix[k]: sum of (x + 1) over the clues k, k+1, ...
RECURSIVE LengthSuffix(_, _)
LengthSuffix(cl, k) ==
    IF k >= Len(cl) THEN 0 ELSE (Clue(cl, k) + 1) + LengthSuffix(cl, k + 1)

\* self._shaded_pos: [-1] followed by the indices of the shaded cells
RECURSIVE ShadedFrom(_, _)
ShadedFrom(sl, i) ==
    IF i >= LineLen(sl) THEN <<>>
    ELSE IF sl[i] = 1 THEN <<i>> \o ShadedFrom(sl, i + 1)
    ELSE ShadedFrom(sl, i + 1)

ShadedPos(sl) == <<-1>> \o ShadedFrom(sl, 0)

\* bisect.bisect_left on a sorted list: the number of entries below x
BisectLeft(s, x) == Cardinality({j \in 1..Len(s) : s[j] < x})

(***************************************************************************)
(* linesolver.py: the search tree.  A node is <<line_pos, first_block>>.   *)
(***************************************************************************)
Root == <<0, 0>>

\* a variant of Reject that also rejects a node whose blocks fit exactly
RejectOffByOne(sl, cl, node) ==
    LengthSuffix(cl, node[2]) >= LineLen(sl) - node[1]

Reject(sl, cl, node) ==
    LengthSuffix(cl, node[2]) > LineLen(sl) - node[1]

Accept(sl, cl, node) ==
    LET shaded == ShadedPos(sl)
    IN  node[2] = Len(cl) /\ node[1] > shaded[Len(shaded)]

\* a variant of IsAllowed that does not look at the cell after the block
IsAllowedNoEndCheck(sl, block_size, end_pos) ==
    \A i \in (end_pos - block_size)..(end_pos - 1) : sl[i] # -1

IsAllowed(sl, block_size, end_pos) ==
    /\ sl[end_pos] # 1
    /\ \A i \in (end_pos - block_size)..(end_pos - 1) : sl[i] # -1

\* the inner loop "while not self._is_allowed(...)": the first allowed end
\* position at or after block_end, or last_cell + 1 when the generator returns
RECURSIVE SkipDisallowed(_, _, _, _)
SkipDisallowed(sl, block_size, block_end, last_cell) ==
    IF block_end > last_cell THEN last_cell + 1
    ELSE IF IsAllowed(sl, block_size, block_end) THEN block_end
    ELSE SkipDisallowed(sl, block_size, block_end + 1, last_cell)

\* the inner loop "while self._line[block_end] != 1": the first shaded cell at
\* or after block_end, or last_cell + 1 when the generator returns
RECURSIVE SkipUnshaded(_, _, _)
SkipUnshaded(sl, block_end, last_cell) ==
    IF block_end > last_cell THEN last_cell + 1
    ELSE IF sl[block_end] = 1 THEN block_end
    ELSE SkipUnshaded(sl, block_end + 1, last_cell)

\* a variant of ChildrenFrom that yields the child without "first_block + 1"
RECURSIVE ChildrenFromSameBlock(_, _, _, _, _)
ChildrenFromSameBlock(sl, block_size, first_block, block_end, last_cell) ==
    IF block_end > last_cell THEN <<>>
    ELSE LET e == SkipDisallowed(sl, block_size, block_end, last_cell)
         IN  IF e > last_cell THEN <<>>
             ELSE LET s == SkipUnshaded(sl, e, last_cell)
                  IN  <<(<<e + 1, first_block>>)>> \o
                      (IF s > last_cell THEN <<>>
                       ELSE ChildrenFromSameBlock(sl, block_size, first_block,
                                                  s + 1, last_cell))

\* the outer loop "while block_end <= last_cell" and what it yields
RECURSIVE ChildrenFrom(_, _, _, _, _)
ChildrenFrom(sl, block_size, first_block, block_end, last_cell) ==
    IF block_end > last_cell THEN <<>>
    ELSE LET e == SkipDisallowed(sl, block_size, block_end, last_cell)
         IN  IF e > last_cell THEN <<>>
             ELSE LET s == SkipUnshaded(sl, e, last_cell)
                  IN  <<(<<e + 1, first_block + 1>>)>> \o
                      (IF s > last_cell THEN <<>>
                       ELSE ChildrenFrom(sl, block_size, first_block, s + 1, last_cell))

\* a variant of Children whose last_cell is the end of the line, whatever
\* shaded cells come first
ChildrenWholeLine(sl, cl, node) ==
    LET line_pos == node[1]
        first_block == node[2]
    IN  IF first_block = Len(cl) THEN <<>>
        ELSE ChildrenFrom(sl, Clue(cl, first_block), first_block,
                          line_pos + Clue(cl, first_block), LineLen(sl) - 1)

Children(sl, cl, node) ==
    LET line_pos == node[1]
        first_block == node[2]
    IN  IF first_block = Len(cl) THEN <<>>
        ELSE LET block_size == Clue(cl, first_block)
                 shaded == ShadedPos(sl)
                 first_shaded_ix == BisectLeft(shaded, line_pos)
                 first_shaded_cell ==
                     IF first_shaded_ix < Len(shaded)
                     THEN shaded[first_shaded_ix + 1]
                     ELSE LineLen(sl)
                 last_cell == Min(LineLen(sl) - 1, first_shaded_cell + block_size)
             IN  ChildrenFrom(sl, block_size, first_block,
                              line_pos + block_size, last_cell)

\* a variant of Pushes that appends the children in the order they are found
RECURSIVE PushesUnreversed(_, _)
PushesUnreversed(children, m) ==
    IF m > Len(children) THEN <<>>
    ELSE SubSeq(children, 1, m) \o PushesUnreversed(children, m + 1)

\* a variant of Pushes that appends each child once, when it is found
PushesNewestOnly(children, m) == children

\* what the body of "for next_node in self._children(node)" appends to the
\* stack: after each new child, all the children found so far, reversed
RECURSIVE Pushes(_, _)
Pushes(children, m) ==
    IF m > Len(children) THEN <<>>
    ELSE Reversed(SubSeq(children, 1, m)) \o Pushes(children, m + 1)

\* the loop "while stack" of has_solution; the top of the stack is its end
RECURSIVE Search(_, _, _)
Search(sl, cl, stack) ==
    IF stack = <<>> THEN FALSE
    ELSE LET node == stack[Len(stack)]
             rest == SubSeq(stack, 1, Len(stack) - 1)
         IN  IF Reject(sl, cl, node) THEN FALSE
             ELSE IF Accept(sl, cl, node) THEN TRUE
             ELSE Search(sl, cl, rest \o Pushes(Children(sl, cl, node), 1))

\* LineSolver(line, clues).has_solution()
HasSolution(l, cl) == Search(SolverLine(l), cl, <<Root>>)

(***************************************************************************)
(* hanjie.py: probing one line.                                            *)
(***************************************************************************)
CheckConsistency(l, cl) == HasSolution(l, cl)

\* a variant of CellDeductions without "line[i] = -1": the second check sees
\* the cell still filled
CellDeductionsNoUnfill(l, cl, i) ==
    (IF ~CheckConsistency([l EXCEPT ![i] = 1], cl) THEN <<(<<i, -1>>)>> ELSE <<>>)
    \o (IF ~CheckConsistency([l EXCEPT ![i] = 1], cl) THEN <<(<<i, 1>>)>> ELSE <<>>)

\* a variant of CellDeductions without the second check
CellDeductionsFilledOnly(l, cl, i) ==
    IF ~CheckConsistency([l EXCEPT ![i] = 1], cl) THEN <<(<<i, -1>>)>> ELSE <<>>

\* a variant of CellDeductions that records the value tried, not its opposite
CellDeductionsSwapped(l, cl, i) ==
    (IF ~CheckConsistency([l EXCEPT ![i] = 1], cl) THEN <<(<<i, 1>>)>> ELSE <<>>)
    \o (IF ~CheckConsistency([l EXCEPT ![i] = -1], cl) THEN <<(<<i, -1>>)>> ELSE <<>>)

\* one iteration of the loop of _make_deductions for an undetermined cell i:
\* the deductions it appends ...
CellDeductions(l, cl, i) ==
    (IF ~CheckConsistency([l EXCEPT ![i] = 1], cl) THEN <<(<<i, -1>>)>> ELSE <<>>)
    \o (IF ~CheckConsistency([l EXCEPT ![i] = -1], cl) THEN <<(<<i, 1>>)>> ELSE <<>>)

\* a variant of CellRestored without "line[i] = 0": the cell keeps the last
\* value tried
CellLeftEmpty(l, i) == [l EXCEPT ![i] = -1]

\* ... and the cell as the iteration leaves it: "line[i] = 0"
CellRestored(l, i) == [l EXCEPT ![i] = 0]

\* a variant of DeductionLoop without the test "if line[i] == 0"
RECURSIVE DeductionLoopAllCells(_, _, _, _)
DeductionLoopAllCells(l, cl, i, ded) ==
    IF i >= LineLen(l) THEN [ok |-> TRUE, deductions |-> ded, line |-> l]
    ELSE DeductionLoopAllCells(CellRestored(l, i), cl, i + 1,
                               ded \o CellDeductions(l, cl, i))

\* the loop "for i in xrange(len(line))" from index i on
RECURSIVE DeductionLoop(_, _, _, _)
DeductionLoop(l, cl, i, ded) ==
    IF i >= LineLen(l) THEN [ok |-> TRUE, deductions |-> ded, line |-> l]
    ELSE IF l[i] = 0
         THEN DeductionLoop(CellRestored(l, i), cl, i + 1,
                            ded \o CellDeductions(l, cl, i))
         ELSE DeductionLoop(l, cl, i + 1, ded)

\* _make_deductions(line, clues).  The source returns False or the list of
\* deductions, and the caller tells them apart with "deductions == False"
\* (an empty list is not equal to False); here ok is FALSE for the former.
\* line is the caller's list as the call leaves it.
MakeDeductions(l, cl) ==
    IF ~CheckConsistency(l, cl)
    THEN [ok |-> FALSE, deductions |-> <<>>, line |-> l]
    ELSE DeductionLoop(l, cl, 0, <<>>)

(***************************************************************************)
(* hanjie.py: one pass over a row or a column.  Each operator gives the    *)
(* fields of the object as the method leaves them, and ok, its result.     *)
(***************************************************************************)
\* a variant of ApplyRow that writes the cell with row and column exchanged
RECURSIVE ApplyRowTransposed(_, _, _, _, _)
ApplyRowTransposed(g, ctc, index, ded, n) ==
    IF n > Len(ded) THEN [grid |-> g, cols_to_check |-> ctc]
    ELSE ApplyRowTransposed([g EXCEPT ![ded[n][1]][index] = ded[n][2]],
                            [ctc EXCEPT ![ded[n][1]] = TRUE], index, ded, n + 1)

\* "for ix, val in deductions" of _single_pass_row, from deduction n on
RECURSIVE ApplyRow(_, _, _, _, _)
ApplyRow(g, ctc, index, ded, n) ==
    IF n > Len(ded) THEN [grid |-> g, cols_to_check |-> ctc]
    ELSE ApplyRow([g EXCEPT ![index][ded[n][1]] = ded[n][2]],
                  [ctc EXCEPT ![ded[n][1]] = TRUE], index, ded, n + 1)

\* a variant of RowPassed without "self._rows_to_check[index] = False"
RowPassedKeepsFlag(index, d) ==
    IF ~d.ok
    THEN [ok |-> FALSE, grid |-> grid,
          rows_to_check |-> rows_to_check, cols_to_check |-> cols_to_check]
    ELSE [ok |-> TRUE,
          grid |-> ApplyRow(grid, cols_to_check, index, d.deductions, 1).grid,
          rows_to_check |-> rows_to_check,
          cols_to_check |-> ApplyRow(grid, cols_to_check, index, d.deductions, 1).cols_to_check]

\* a variant of RowPassed without "self._cols_to_check[ix] = True"
RowPassedNoDirty(index, d) ==
    IF ~d.ok
    THEN [ok |-> FALSE, grid |-> grid,
          rows_to_check |-> rows_to_check, cols_to_check |-> cols_to_check]
    ELSE [ok |-> TRUE,
          grid |-> ApplyRow(grid, cols_to_check, index, d.deductions, 1).grid,
          rows_to_check |-> [rows_to_check EXCEPT ![index] = FALSE],
          cols_to_check |-> cols_to_check]

\* a variant of RowPassed that marks every column when a cell was deduced
RowPassedDirtiesAll(index, d) ==
    IF ~d.ok
    THEN [ok |-> FALSE, grid |-> grid,
          rows_to_check |-> rows_to_check, cols_to_check |-> cols_to_check]
    ELSE [ok |-> TRUE,
          grid |-> ApplyRow(grid, cols_to_check, index, d.deductions, 1).grid,
          rows_to_check |-> [rows_to_check EXCEPT ![index] = FALSE],
          cols_to_check |-> IF d.deductions = <<>> THEN cols_to_check
                            ELSE Array(width, TRUE)]

\* _single_pass_row once d, the result of _make_deductions, is known
RowPassed(index, d) ==
    IF ~d.ok
    THEN [ok |-> FALSE, grid |-> grid,
          rows_to_check |-> rows_to_check, cols_to_check |-> cols_to_check]
    ELSE [ok |-> TRUE,
          grid |-> ApplyRow(grid, cols_to_check, index, d.deductions, 1).grid,
          rows_to_check |-> [rows_to_check EXCEPT ![index] = FALSE],
          cols_to_check |-> ApplyRow(grid, cols_to_check, index, d.deductions, 1).cols_to_check]

SinglePassRow(index) ==
    RowPassed(index, MakeDeductions([j \in 0..(width - 1) |-> grid[index][j]],
                                    row_clues[index]))

\* "for ix, val in deductions" of _single_pass_col, from deduction n on
RECURSIVE ApplyCol(_, _, _, _, _)
ApplyCol(g, rtc, index, ded, n) ==
    IF n > Len(ded) THEN [grid |-> g, rows_to_check |-> rtc]
    ELSE ApplyCol([g EXCEPT ![ded[n][1]][index] = ded[n][2]],
                  [rtc EXCEPT ![ded[n][1]] = TRUE], index, ded, n + 1)

\* a variant of ColPassed without "self._rows_to_check[ix] = True"
ColPassedNoDirty(index, d) ==
    IF ~d.ok
    THEN [ok |-> FALSE, grid |-> grid,
          rows_to_check |-> rows_to_check, cols_to_check |-> cols_to_check]
    ELSE [ok |-> TRUE,
          grid |-> ApplyCol(grid, rows_to_check, index, d.deductions, 1).grid,
          rows_to_check |-> rows_to_check,
          cols_to_check |-> [cols_to_check EXCEPT ![index] = FALSE]]

\* _single_pass_col once d, the result of _make_deductions, is known
ColPassed(index, d) ==
    IF ~d.ok
    THEN [ok |-> FALSE, grid |-> grid,
          rows_to_check |-> rows_to_check, cols_to_check |-> cols_to_check]
    ELSE [ok |-> TRUE,
          grid |-> ApplyCol(grid, rows_to_check, index, d.deductions, 1).grid,
          rows_to_check |-> ApplyCol(grid, rows_to_check, index, d.deductions, 1).rows_to_check,
          cols_to_check |-> [cols_to_check EXCEPT ![index] = FALSE]]

SinglePassCol(index) ==
    ColPassed(index, MakeDeductions([j \in 0..(height - 1) |-> grid[j][index]],
                                    col_clues[index]))

(***************************************************************************)
(* What a line or a puzzle means: the complete lines (every cell 1 or -1)  *)
(* whose runs of filled cells are the clues, and the complete grids whose  *)
(* rows and columns all are such lines.                                    *)
(***************************************************************************)
RECURSIVE RunsFrom(_, _, _)
RunsFrom(a, i, cur) ==
    IF i >= LineLen(a) THEN (IF cur > 0 THEN <<cur>> ELSE <<>>)
    ELSE IF a[i] = 1 THEN RunsFrom(a, i + 1, cur + 1)
    ELSE (IF cur > 0 THEN <<cur>> ELSE <<>>) \o RunsFrom(a, i + 1, 0)

Runs(a) == RunsFrom(a, 0, 0)

Arrangements(n, cl) == {a \in [0..(n - 1) -> {1, -1}] : Runs(a) = cl}

Agrees(a, l) == \A i \in DOMAIN l : l[i] # 0 => a[i] = l[i]

\* the valid arrangements of a partially filled line
ValidArrangements(l, cl) == {a \in Arrangements(LineLen(l), cl) : Agrees(a, l)}

\* a placement of the blocks: the start of each block, in clue order, each
\* block inside the line and followed by at least one cell before the next
Placements(n, cl) ==
    {s \in [1..Len(cl) -> 0..(n - 1)] :
        /\ \A j \in 1..Len(cl) : s[j] + cl[j] <= n
        /\ \A j \in 1..(Len(cl) - 1) : s[j] + cl[j] + 1 <= s[j + 1]}

Covered(s, cl, i) == \E j \in 1..Len(cl) : s[j] <= i /\ i < s[j] + cl[j]

PlacementExists(l, cl) ==
    \E s \in Placements(LineLen(l), cl) :
        \A i \in DOMAIN l : /\ l[i] = 1 => Covered(s, cl, i)
                            /\ l[i] = -1 => ~Covered(s, cl, i)

\* minimum number of cells a clue sequence needs: the blocks and the gaps
Span(cl) == IF cl = <<>> THEN 0 ELSE SumSeq(cl) + Len(cl) - 1

RECURSIVE GridsUpTo(_, _, _)
GridsUpTo(k, w, rc) ==
    IF k = 0 THEN {Array(0, 0)}
    ELSE {[r \in 0..(k - 1) |-> IF r < k - 1 THEN g[r] ELSE a] :
             g \in GridsUpTo(k - 1, w, rc), a \in Arrangements(w, rc[k - 1])}

Solutions(h, w, rc, cc) ==
    {g \in GridsUpTo(h, w, rc) :
        \A c \in 0..(w - 1) : Runs([r \in 0..(h - 1) |-> g[r][c]]) = cc[c]}

(***************************************************************************)
(* Inputs.                                                                 *)
(***************************************************************************)
\* the clue sequences (of positive integers) that need at most s cells
ClueSeqs(s) ==
    {q \in UNION {[1..n -> 1..s] : n \in 0..((s + 1) \div 2)} : Span(q) <= s}

Lines == UNION {[0..(n - 1) -> {0, 1, -1}] : n \in 0..MaxLen}

\* the clues of a free-standing line may need one cell more than the longest line
LineClues == ClueSeqs(MaxLen + 1)

\* the clues of a puzzle line need at most MaxDim cells: in a grid smaller
\* than MaxDim they may not fit
PuzzleClues == ClueSeqs(MaxDim)

NoHist(h, w) ==
    [calls |-> 0, passes |-> 0, pass_probes |-> 0, pass_fixed |-> 0,
     prev_fixed |-> -1, call_fixed |-> 0, call_probes |-> 0,
     row_probes |-> Array(h, 0), col_probes |-> Array(w, 0),
     last_end |-> "none", first_probe |-> "none"]

(***************************************************************************)
(* The line solver on its own: a line and its clues are given, and either  *)
(* _check_consistency or _make_deductions is called on them.               *)
(***************************************************************************)
LineInit ==
    /\ line \in Lines
    /\ clues \in LineClues
    /\ lpc = "start"
    /\ result = FALSE
    /\ search_stack = <<>> /\ search_node = Root
    /\ width = 0 /\ height = 0
    /\ grid = Array(0, 0)
    /\ row_clues = Array(0, 0) /\ col_clues = Array(0, 0)
    /\ rows_to_check = Array(0, 0) /\ cols_to_check = Array(0, 0)
    /\ pc = "idle" /\ idx = 0 /\ made_change = FALSE
    /\ hist = NoHist(0, 0)
    /\ sols = {}

CallCheckConsistency ==
    /\ lpc = "start"
    /\ lpc' = "checked"
    /\ result' = CheckConsistency(line, clues)
    /\ UNCHANGED <<line, clues, search_stack, search_node, hanjieVars, solveVars, hist, sols>>

CallMakeDeductions ==
    /\ lpc = "start"
    /\ lpc' = "deduced"
    /\ result' = MakeDeductions(line, clues)
    /\ line' = result'.line
    /\ UNCHANGED <<clues, search_stack, search_node, hanjieVars, solveVars, hist, sols>>

LineNext == CallCheckConsistency \/ CallMakeDeductions

LineSpec == LineInit /\ [][LineNext]_vars

(***************************************************************************)
(* has_solution step by step: LineSolver(line, clues) is constructed and    *)
(* "stack = [self._root()]" is done; each step is one round of "while       *)
(* stack", or the return after it.  lpc tells how the call has returned.    *)
(***************************************************************************)
SearchInit ==
    /\ line \in Lines
    /\ clues \in LineClues
    /\ lpc = "search"
    /\ result = FALSE
    /\ search_stack = <<Root>> /\ search_node = Root
    /\ width = 0 /\ height = 0
    /\ grid = Array(0, 0)
    /\ row_clues = Array(0, 0) /\ col_clues = Array(0, 0)
    /\ rows_to_check = Array(0, 0) /\ cols_to_check = Array(0, 0)
    /\ pc = "idle" /\ idx = 0 /\ made_change = FALSE
    /\ hist = NoHist(0, 0)
    /\ sols = {}

\* "node = stack.pop()"
Popped == search_stack[Len(search_stack)]

Rest == SubSeq(search_stack, 1, Len(search_stack) - 1)

\* "if self._reject(node): return False"
SearchReject ==
    /\ lpc = "search" /\ search_stack # <<>>
    /\ Reject(SolverLine(line), clues, Popped)
    /\ search_node' = Popped /\ search_stack' = Rest
    /\ lpc' = "rejected" /\ result' = FALSE
    /\ UNCHANGED <<line, clues, hanjieVars, solveVars, hist, sols>>

\* "if self._accept(node): return True"
SearchAccept ==
    /\ lpc = "search" /\ search_stack # <<>>
    /\ ~Reject(SolverLine(line), clues, Popped)
    /\ Accept(SolverLine(line), clues, Popped)
    /\ search_node' = Popped /\ search_stack' = Rest
    /\ lpc' = "accepted" /\ result' = TRUE
    /\ UNCHANGED <<line, clues, hanjieVars, solveVars, hist, sols>>

\* the node is neither rejected nor accepted: its children are put on the stack
SearchExpand ==
    /\ lpc = "search" /\ search_stack # <<>>
    /\ ~Reject(SolverLine(line), clues, Popped)
    /\ ~Accept(SolverLine(line), clues, Popped)
    /\ search_node' = Popped
    /\ search_stack' = Rest \o Pushes(Children(SolverLine(line), clues, Popped), 1)
    /\ UNCHANGED <<line, clues, lpc, result, hanjieVars, solveVars, hist, sols>>

\* the stack is empty: "return False" after the loop
SearchExhausted ==
    /\ lpc = "search" /\ search_stack = <<>>
    /\ lpc' = "exhausted" /\ result' = FALSE
    /\ UNCHANGED <<line, clues, search_stack, search_node,
                   hanjieVars, solveVars, hist, sols>>

SearchNext == SearchReject \/ SearchAccept \/ SearchExpand \/ SearchExhausted

SearchSpec == SearchInit /\ [][SearchNext]_vars

(***************************************************************************)
(* The puzzle object: Hanjie(row_clues, col_clues), then calls of solve(). *)
(***************************************************************************)
Init ==
    /\ height \in 0..MaxDim
    /\ width \in 0..MaxDim
    /\ row_clues \in [0..(height - 1) -> PuzzleClues]
    /\ col_clues \in [0..(width - 1) -> PuzzleClues]
    /\ grid = Array(height, Array(width, 0))
    /\ rows_to_check = Array(height, TRUE)
    /\ cols_to_check = Array(width, TRUE)
    /\ pc = "ready" /\ idx = 0 /\ made_change = FALSE
    /\ line = Array(0, 0) /\ clues = <<>> /\ lpc = "idle" /\ result = FALSE
    /\ search_stack = <<>> /\ search_node = Root
    /\ hist = NoHist(height, width)
    /\ sols = Solutions(height, width, row_clues, col_clues)

\* a variant of Solve that marks every line as to be checked again
SolveResetFlags ==
    /\ pc \in {"ready", "done", "inconsistent"}
    /\ hist.calls < MaxCalls
    /\ pc' = "rows" /\ idx' = 0 /\ made_change' = FALSE
    /\ rows_to_check' = Array(height, TRUE)
    /\ cols_to_check' = Array(width, TRUE)
    /\ hist' = [NoHist(height, width) EXCEPT
                   !.calls = hist.calls + 1, !.passes = 1, !.last_end = pc]
    /\ UNCHANGED <<width, height, grid, row_clues, col_clues, lineVars, sols>>

\* a call of solve(): "while True: made_change = False", and the first row
Solve ==
    /\ pc \in {"ready", "done", "inconsistent"}
    /\ hist.calls < MaxCalls
    /\ pc' = "rows" /\ idx' = 0 /\ made_change' = FALSE
    /\ hist' = [NoHist(height, width) EXCEPT
                   !.calls = hist.calls + 1, !.passes = 1, !.last_end = pc]
    /\ UNCHANGED <<hanjieVars, lineVars, sols>>

\* "for i, x in enumerate(self._rows_to_check)": x is not True
RowSkip ==
    /\ pc = "rows" /\ idx < height
    /\ ~rows_to_check[idx]
    /\ idx' = idx + 1
    /\ UNCHANGED <<hanjieVars, pc, made_change, lineVars, hist, sols>>

\* a variant of RowProbe that ignores the result of _single_pass_row
RowProbeIgnore ==
    /\ pc = "rows" /\ idx < height
    /\ rows_to_check[idx]
    /\ \E r \in {SinglePassRow(idx)} :
       LET fixed == Cardinality({c \in 0..(width - 1) : r.grid[idx][c] # grid[idx][c]})
       IN  /\ grid' = r.grid
           /\ rows_to_check' = r.rows_to_check
           /\ cols_to_check' = r.cols_to_check
           /\ hist' = [hist EXCEPT
                  !.pass_probes = @ + 1, !.call_probes = @ + 1,
                  !.row_probes[idx] = @ + 1,
                  !.pass_fixed = @ + fixed, !.call_fixed = @ + fixed]
    /\ pc' = "rows" /\ idx' = idx + 1 /\ made_change' = TRUE
    /\ UNCHANGED <<width, height, row_clues, col_clues, lineVars, sols>>

\* x is True: self._single_pass_row(i) is called.  When it returns False,
\* solve() prints "Puzzle is inconsistent" and returns; otherwise
\* made_change is set and the loop goes on
RowProbe ==
    /\ pc = "rows" /\ idx < height
    /\ rows_to_check[idx]
    /\ \E r \in {SinglePassRow(idx)} :
       LET fixed == Cardinality({c \in 0..(width - 1) : r.grid[idx][c] # grid[idx][c]})
       IN  /\ grid' = r.grid
           /\ rows_to_check' = r.rows_to_check
           /\ cols_to_check' = r.cols_to_check
           /\ pc' = IF r.ok THEN "rows" ELSE "inconsistent"
           /\ idx' = IF r.ok THEN idx + 1 ELSE idx
           /\ made_change' = IF r.ok THEN TRUE ELSE made_change
           /\ hist' = [hist EXCEPT
                  !.pass_probes = @ + 1, !.call_probes = @ + 1,
                  !.row_probes[idx] = @ + 1,
                  !.pass_fixed = @ + fixed, !.call_fixed = @ + fixed]
    /\ UNCHANGED <<width, height, row_clues, col_clues, lineVars, sols>>

\* the loop over the rows is exhausted
RowsDone ==
    /\ pc = "rows" /\ idx = height
    /\ pc' = "cols" /\ idx' = 0
    /\ UNCHANGED <<hanjieVars, made_change, lineVars, hist, sols>>

\* "for i, x in enumerate(self._cols_to_check)": x is not True
ColSkip ==
    /\ pc = "cols" /\ idx < width
    /\ ~cols_to_check[idx]
    /\ idx' = idx + 1
    /\ UNCHANGED <<hanjieVars, pc, made_change, lineVars, hist, sols>>

\* a variant of ColProbe that ignores the result of _single_pass_col
ColProbeIgnore ==
    /\ pc = "cols" /\ idx < width
    /\ cols_to_check[idx]
    /\ \E r \in {SinglePassCol(idx)} :
       LET fixed == Cardinality({c \in 0..(height - 1) : r.grid[c][idx] # grid[c][idx]})
       IN  /\ grid' = r.grid
           /\ rows_to_check' = r.rows_to_check
           /\ cols_to_check' = r.cols_to_check
           /\ hist' = [hist EXCEPT
                  !.pass_probes = @ + 1, !.call_probes = @ + 1,
                  !.col_probes[idx] = @ + 1,
                  !.pass_fixed = @ + fixed, !.call_fixed = @ + fixed]
    /\ pc' = "cols" /\ idx' = idx + 1 /\ made_change' = TRUE
    /\ UNCHANGED <<width, height, row_clues, col_clues, lineVars, sols>>

\* x is True: self._single_pass_col(i) is called.  When it returns False,
\* solve() prints "Puzzle is inconsistent" and returns; otherwise
\* made_change is set and the loop goes on
ColProbe ==
    /\ pc = "cols" /\ idx < width
    /\ cols_to_check[idx]
    /\ \E r \in {SinglePassCol(idx)} :
       LET fixed == Cardinality({c \in 0..(height - 1) : r.grid[c][idx] # grid[c][idx]})
       IN  /\ grid' = r.grid
           /\ rows_to_check' = r.rows_to_check
           /\ cols_to_check' = r.cols_to_check
           /\ pc' = IF r.ok THEN "cols" ELSE "inconsistent"
           /\ idx' = IF r.ok THEN idx + 1 ELSE idx
           /\ made_change' = IF r.ok THEN TRUE ELSE made_change
           /\ hist' = [hist EXCEPT
                  !.pass_probes = @ + 1, !.call_probes = @ + 1,
                  !.col_probes[idx] = @ + 1,
                  !.pass_fixed = @ + fixed, !.call_fixed = @ + fixed]
    /\ UNCHANGED <<width, height, row_clues, col_clues, lineVars, sols>>

\* the loop over the columns is exhausted and made_change is set: the next
\* round of "while True" starts with "made_change = False"
NextPass ==
    /\ pc = "cols" /\ idx = width
    /\ made_change
    /\ pc' = "rows" /\ idx' = 0 /\ made_change' = FALSE
    /\ hist' = [hist EXCEPT !.passes = @ + 1, !.prev_fixed = hist.pass_fixed,
                            !.pass_fixed = 0, !.pass_probes = 0]
    /\ UNCHANGED <<hanjieVars, lineVars, sols>>

\* "if not made_change: break", then self._pretty_print(), which only reads
Finish ==
    /\ pc = "cols" /\ idx = width
    /\ ~made_change
    /\ pc' = "done"
    /\ UNCHANGED <<hanjieVars, idx, made_change, lineVars, hist, sols>>

Next ==
    \/ Solve
    \/ RowSkip \/ RowProbe \/ RowsDone
    \/ ColSkip \/ ColProbe
    \/ NextPass \/ Finish

Spec == Init /\ [][Next]_vars

(***************************************************************************)
(* Frame puzzles: 5 x 5 pictures in which each row is either full or has   *)
(* its cells 0, 2 and 4 filled; the column clues are the runs of the        *)
(* picture's columns.  The box (rows 0 and 4 full) is one of them.          *)
(***************************************************************************)
FrameRows == {<<5>>, <<1, 1, 1>>}

FramePicture(rc) ==
    [r \in 0..4 |-> [c \in 0..4 |->
        IF rc[r] = <<5>> \/ c \in {0, 2, 4} THEN 1 ELSE -1]]

FrameInit ==
    /\ height = 5 /\ width = 5
    /\ row_clues \in [0..4 -> FrameRows]
    /\ col_clues = [c \in 0..4 |-> Runs([r \in 0..4 |-> FramePicture(row_clues)[r][c]])]
    /\ grid = Array(height, Array(width, 0))
    /\ rows_to_check = Array(height, TRUE)
    /\ cols_to_check = Array(width, TRUE)
    /\ pc = "ready" /\ idx = 0 /\ made_change = FALSE
    /\ line = Array(0, 0) /\ clues = <<>> /\ lpc = "idle" /\ result = FALSE
    /\ search_stack = <<>> /\ search_node = Root
    /\ hist = NoHist(height, width)
    /\ sols = Solutions(height, width, row_clues, col_clues)

FrameSpec == FrameInit /\ [][Next]_vars

(***************************************************************************)
(* Probing in any order.  The object is constructed as in Init; then       *)
(* either solve() is called (pc = "ready"), or the lines that are marked    *)
(* are swept one at a time in an order chosen freely (pc = "any"), with     *)
(* _single_pass_row and _single_pass_col as they are, until no line is      *)
(* marked or a sweep returns False.                                         *)
(***************************************************************************)
\* the grids whose lines are swept in any order have at most this many cells
MaxAnyCells == 2 * MaxDim

AnyInit ==
    /\ height \in 0..MaxDim
    /\ width \in 0..MaxDim
    /\ height * width <= MaxAnyCells
    /\ row_clues \in [0..(height - 1) -> PuzzleClues]
    /\ col_clues \in [0..(width - 1) -> PuzzleClues]
    /\ grid = Array(height, Array(width, 0))
    /\ rows_to_check = Array(height, TRUE)
    /\ cols_to_check = Array(width, TRUE)
    /\ pc \in {"ready", "any"} /\ idx = 0 /\ made_change = FALSE
    /\ line = Array(0, 0) /\ clues = <<>> /\ lpc = "idle" /\ result = FALSE
    /\ search_stack = <<>> /\ search_node = Root
    /\ hist = NoHist(height, width)
    /\ sols = Solutions(height, width, row_clues, col_clues)

AnyRowProbe ==
    /\ pc = "any"
    /\ \E r \in 0..(height - 1) :
          /\ rows_to_check[r]
          /\ \E res \in {SinglePassRow(r)} :
                /\ grid' = res.grid
                /\ rows_to_check' = res.rows_to_check
                /\ cols_to_check' = res.cols_to_check
                /\ pc' = IF res.ok THEN "any" ELSE "any_inconsistent"
    /\ hist' = [hist EXCEPT !.first_probe = IF @ = "none" THEN "row" ELSE @]
    /\ UNCHANGED <<width, height, row_clues, col_clues, idx, made_change,
                   lineVars, sols>>

AnyColProbe ==
    /\ pc = "any"
    /\ \E c \in 0..(width - 1) :
          /\ cols_to_check[c]
          /\ \E res \in {SinglePassCol(c)} :
                /\ grid' = res.grid
                /\ rows_to_check' = res.rows_to_check
                /\ cols_to_check' = res.cols_to_check
                /\ pc' = IF res.ok THEN "any" ELSE "any_inconsistent"
    /\ hist' = [hist EXCEPT !.first_probe = IF @ = "none" THEN "col" ELSE @]
    /\ UNCHANGED <<width, height, row_clues, col_clues, idx, made_change,
                   lineVars, sols>>

\* no line is marked
AnyFinish ==
    /\ pc = "any"
    /\ \A r \in 0..(height - 1) : ~rows_to_check[r]
    /\ \A c \in 0..(width - 1) : ~cols_to_check[c]
    /\ pc' = "any_done"
    /\ UNCHANGED <<hanjieVars, idx, made_change, lineVars, hist, sols>>

AnyNext == Next \/ AnyRowProbe \/ AnyColProbe \/ AnyFinish

AnySpec == AnyInit /\ [][AnyNext]_vars

(***************************************************************************)
(* Properties of the line solver, checked under LineSpec.                  *)
(***************************************************************************)
AllUnknown(l) == \A i \in DOMAIN l : l[i] = 0

\* C1: has_solution returns true if and only if some placement of the blocks,
\* in clue order, separated by at least one cell and inside the line, covers
\* every Filled cell and no Empty cell.
C1_HasSolutionIffPlacement ==
    lpc = "checked" => (result <=> PlacementExists(line, clues))

\* a line with a Filled, an Empty and an Unknown cell and two clues, found
\* to have a solution
C1_Witness ==
    /\ lpc = "checked" /\ result = TRUE
    /\ Len(clues) = 2
    /\ \E i, j, k \in DOMAIN line : line[i] = 1 /\ line[j] = -1 /\ line[k] = 0

\* C2: every deduction (i, v) that _make_deductions returns is forced: no
\* valid arrangement of the line gives cell i the value opposite to v.
C2_DeductionsForced ==
    (lpc = "deduced" /\ result.ok) =>
        \A n \in 1..Len(result.deductions) :
            \A a \in ValidArrangements(line, clues) :
                a[result.deductions[n][1]] # -(result.deductions[n][2])

\* a line with a Filled cell for which both a Filled and an Empty cell are deduced
C2_Witness ==
    /\ lpc = "deduced" /\ result.ok
    /\ \E i \in DOMAIN line : line[i] = 1
    /\ \E n, m \in 1..Len(result.deductions) :
          result.deductions[n][2] = 1 /\ result.deductions[m][2] = -1

\* C8: on a line whose cells are all Unknown, has_solution returns true
\* exactly when (sum of the clues) + (number of clues - 1) <= line length.
C8_AllUnknownFits ==
    (lpc = "checked" /\ AllUnknown(line)) =>
        (result <=> SumSeq(clues) + Len(clues) - 1 <= LineLen(line))

\* length 3 with clues [2, 2] gives false
C8_Witness ==
    /\ lpc = "checked" /\ AllUnknown(line)
    /\ LineLen(line) = 3 /\ clues = <<2, 2>>
    /\ result = FALSE

\* C9: on an all-Unknown line of length L with the single clue c, 1 <= c <= L,
\* _make_deductions returns exactly (i, Filled) for L - c <= i < c, in
\* ascending order.
C9_SingleClueOverlap ==
    (/\ lpc = "deduced" /\ AllUnknown(line)
     /\ Len(clues) = 1 /\ clues[1] <= LineLen(line)) =>
        /\ result.ok
        /\ Len(result.deductions) =
              (IF 2 * clues[1] > LineLen(line) THEN 2 * clues[1] - LineLen(line) ELSE 0)
        /\ \A n \in 1..Len(result.deductions) :
              result.deductions[n] = <<LineLen(line) - clues[1] + n - 1, 1>>

\* L = 5, c = 3 gives exactly [(2, Filled)]
C9_Witness ==
    /\ lpc = "deduced" /\ AllUnknown(line)
    /\ LineLen(line) = 5 /\ clues = <<3>>
    /\ result.ok /\ result.deductions = <<(<<2, 1>>)>>

\* C12: probing has no side effect on its input.  A call of has_solution
\* (through _check_consistency) leaves the caller's line and clues as they
\* were, and when _make_deductions returns, with a list of deductions or with
\* the inconsistency signal, every cell of the line has the value it had on
\* entry: the deductions are recorded, not applied.
C12_ProbingLeavesInput ==
    [][lpc = "start" => (line' = line /\ clues' = clues)]_vars

\* _make_deductions has returned a deduction for a cell, and the cell is
\* Unknown in the line it leaves
C12_Witness ==
    /\ lpc = "deduced" /\ result.ok
    /\ \E n \in 1..Len(result.deductions) : line[result.deductions[n][1]] = 0
    /\ \E i \in DOMAIN line : line[i] # 0

\* C15: the list that _make_deductions returns on a consistent line is in
\* strictly ascending order of cell index (so no index occurs twice, and never
\* with both values), and every entry is (i, Filled) or (i, Empty) for a cell
\* i that was Unknown in the line the call was given.
C15_DeductionListShape ==
    [][(lpc = "start" /\ lpc' = "deduced" /\ result'.ok) =>
          /\ \A n \in 1..Len(result'.deductions) :
                /\ result'.deductions[n][1] \in DOMAIN line
                /\ line[result'.deductions[n][1]] = 0
                /\ result'.deductions[n][2] \in {1, -1}
          /\ \A n \in 1..(Len(result'.deductions) - 1) :
                result'.deductions[n][1] < result'.deductions[n + 1][1]]_vars

\* three or more deductions, of both values, on a line that has determined
\* cells of both values among the Unknown ones
C15_Witness ==
    /\ lpc = "deduced" /\ result.ok
    /\ Len(result.deductions) >= 3
    /\ \E n, m \in 1..Len(result.deductions) :
          result.deductions[n][2] = 1 /\ result.deductions[m][2] = -1
    /\ \E i, j \in DOMAIN line : line[i] = 1 /\ line[j] = -1

\* a depth-first search of the same tree, leftmost child first, that puts
\* each child on the stack once and skips a node it has visited before
RECURSIVE MemoSearch(_, _, _, _)
MemoSearch(sl, cl, stack, seen) ==
    IF stack = <<>> THEN FALSE
    ELSE LET node == stack[Len(stack)]
             rest == SubSeq(stack, 1, Len(stack) - 1)
         IN  IF node \in seen THEN MemoSearch(sl, cl, rest, seen)
             ELSE IF Reject(sl, cl, node) THEN FALSE
             ELSE IF Accept(sl, cl, node) THEN TRUE
             ELSE MemoSearch(sl, cl, rest \o Reversed(Children(sl, cl, node)),
                             seen \cup {node})

\* C20: has_solution, which puts the children found so far on the stack again
\* after each new child and never consults the set of seen positions, returns
\* the same boolean as the search that pushes each child once and skips the
\* nodes already visited.
C20_SameAsMemoSearch ==
    lpc = "checked" =>
        (result <=> MemoSearch(SolverLine(line), clues, <<Root>>, {}))

\* line 0 -1 1 -1 1 with the clue [1]: the root has two children, none of
\* them is rejected, accepted or has children; the first is on the stack
\* twice and is visited twice before the stack runs empty
C20_Witness ==
    /\ lpc = "checked" /\ result = FALSE
    /\ line = [i \in 0..4 |-> IF i = 0 THEN 0 ELSE IF i \in {2, 4} THEN 1 ELSE -1]
    /\ clues = <<1>>
    /\ ~Reject(SolverLine(line), clues, Root)
    /\ Children(SolverLine(line), clues, Root) = <<(<<2, 1>>), (<<4, 1>>)>>
    /\ Pushes(Children(SolverLine(line), clues, Root), 1)
          = <<(<<2, 1>>), (<<4, 1>>), (<<2, 1>>)>>
    /\ \A c \in {<<2, 1>>, <<4, 1>>} :
          /\ ~Reject(SolverLine(line), clues, c)
          /\ ~Accept(SolverLine(line), clues, c)
          /\ Children(SolverLine(line), clues, c) = <<>>

(***************************************************************************)
(* Properties of solve(), checked under Spec.                              *)
(***************************************************************************)
RowLine(r) == [j \in 0..(width - 1) |-> grid[r][j]]

ColLine(c) == [j \in 0..(height - 1) |-> grid[j][c]]

AllClean ==
    /\ \A r \in 0..(height - 1) : ~rows_to_check[r]
    /\ \A c \in 0..(width - 1) : ~cols_to_check[c]

SomeUnknown == \E r \in 0..(height - 1), c \in 0..(width - 1) : grid[r][c] = 0

SomeFixed == \E r \in 0..(height - 1), c \in 0..(width - 1) : grid[r][c] # 0

\* the line has a valid arrangement, and each of its Unknown cells is Filled
\* in some valid arrangement and Empty in some other: nothing can be deduced
NothingToDeduce(l, cl) ==
    \E va \in {ValidArrangements(l, cl)} :
        /\ va # {}
        /\ \A i \in DOMAIN l :
              l[i] = 0 => (\E a \in va : a[i] = 1) /\ (\E a \in va : a[i] = -1)

\* C3: when solve() finishes without reporting an inconsistency, every dirty
\* flag is false and no single-line deduction is possible in any row or column.
C3_FixpointAtDone ==
    pc = "done" =>
        /\ AllClean
        /\ \A r \in 0..(height - 1) : NothingToDeduce(RowLine(r), row_clues[r])
        /\ \A c \in 0..(width - 1) : NothingToDeduce(ColLine(c), col_clues[c])

\* solve() has finished on a grid of full size, every line probed, with
\* cells left Unknown
C3_Witness ==
    /\ pc = "done" /\ hist.calls = 1
    /\ height = MaxDim /\ width = MaxDim
    /\ hist.call_probes >= height + width
    /\ SomeUnknown

\* C4: every cell that is Filled or Empty has the value it takes in every
\* complete grid satisfying all clues, and an inconsistency is reported only
\* for puzzles that no complete grid satisfies.
C4_GridSound ==
    /\ \A g \in sols : \A r \in 0..(height - 1), c \in 0..(width - 1) :
          grid[r][c] # 0 => grid[r][c] = g[r][c]
    /\ pc = "inconsistent" => sols = {}

\* a puzzle with exactly one solution, found by solve()
C4_Witness ==
    /\ pc = "done" /\ Cardinality(sols) = 1
    /\ height = MaxDim /\ width = MaxDim
    /\ ~SomeUnknown
    /\ \E r \in 0..(height - 1), c, d \in 0..(width - 1) :
          grid[r][c] = 1 /\ grid[r][d] = -1

\* C5: solve() always terminates.  In every state of the loop a step is
\* possible (the loop index is within the list), and the number of passes is
\* bounded by the number of cells fixed, which is bounded by the size of the
\* grid: a pass that probed a line has fixed a cell or leaves all lines
\* clean, a pass without deduction is followed by no probe, and solve() ends
\* after a pass without probe.
C5_Terminates ==
    /\ hist.passes <= hist.call_fixed + 2
    /\ hist.call_fixed <= height * width
    /\ (pc = "cols" /\ idx = width /\ hist.pass_probes >= 1) =>
          (hist.pass_fixed >= 1 \/ AllClean)
    /\ hist.prev_fixed = 0 => hist.pass_probes = 0
    /\ pc = "done" => hist.pass_probes = 0
    /\ pc = "rows" => idx <= height
    /\ pc = "cols" => idx <= width

\* solve() has ended after a pass that fixed cells and a pass that fixed none
C5_Witness ==
    /\ pc = "done" /\ hist.passes = 3
    /\ hist.call_fixed >= 1 /\ hist.prev_fixed = 0 /\ hist.pass_probes = 0

\* the probe solve() is about to make reports the line inconsistent
ProbeFails ==
    \/ pc = "rows" /\ idx < height /\ rows_to_check[idx] /\ ~SinglePassRow(idx).ok
    \/ pc = "cols" /\ idx < width /\ cols_to_check[idx] /\ ~SinglePassCol(idx).ok

\* C6: when a probe reports the line inconsistent, solve() stops at once with
\* the inconsistency as its result; the failing sweep leaves the grid and all
\* dirty flags as they were (the failing line stays dirty), and nothing is
\* probed until solve() is called again.
C6_StopsOnInconsistency ==
    [][/\ ProbeFails =>
            /\ pc' = "inconsistent"
            /\ grid' = grid
            /\ rows_to_check' = rows_to_check
            /\ cols_to_check' = cols_to_check
       /\ pc = "inconsistent" =>
            /\ hist'.calls = hist.calls + 1
            /\ hist'.call_probes = 0
            /\ grid' = grid
            /\ rows_to_check' = rows_to_check
            /\ cols_to_check' = cols_to_check]_vars

\* an inconsistency found in a column, in the second pass, with cells fixed
C6_Witness ==
    /\ pc = "inconsistent" /\ hist.calls = 1
    /\ hist.passes = 2 /\ SomeFixed
    /\ idx < width /\ cols_to_check[idx]
    /\ hist.col_probes[idx] = 2

\* C7: a call of solve() on an object whose previous solve() ended at the
\* fixpoint probes no line and changes no cell and no dirty flag.
C7_SolveIdempotent ==
    [][hist.last_end = "done" =>
          /\ grid' = grid
          /\ rows_to_check' = rows_to_check
          /\ cols_to_check' = cols_to_check
          /\ hist'.call_probes = 0]_vars

\* the second solve() has finished, on a grid with fixed cells
C7_Witness ==
    /\ pc = "done" /\ hist.calls = 2 /\ hist.last_end = "done"
    /\ hist.call_probes = 0 /\ hist.passes = 1
    /\ SomeFixed

\* some row or column has clues that need more cells than the line has
Overlong ==
    \/ \E r \in 0..(height - 1) : SumSeq(row_clues[r]) + Len(row_clues[r]) - 1 > width
    \/ \E c \in 0..(width - 1) : SumSeq(col_clues[c]) + Len(col_clues[c]) - 1 > height

\* C10: if the clues of some row or column need more cells than the line
\* has, solve() reports the puzzle inconsistent during the first pass, before
\* any line has been probed twice.
C10_OverlongFirstPass ==
    (Overlong /\ hist.calls >= 1) =>
        /\ pc \in {"rows", "cols", "inconsistent"}
        /\ hist.passes = 1
        /\ \A r \in 0..(height - 1) : hist.row_probes[r] <= 1
        /\ \A c \in 0..(width - 1) : hist.col_probes[c] <= 1
        /\ (pc = "rows" => idx <= height) /\ (pc = "cols" => idx < width)

\* only a column is too short for its clues: the inconsistency is reported
\* after all the rows and a column have been probed
C10_Witness ==
    /\ Overlong /\ pc = "inconsistent" /\ hist.calls = 1
    /\ \A r \in 0..(height - 1) :
          SumSeq(row_clues[r]) + Len(row_clues[r]) - 1 <= width
    /\ hist.call_probes >= 3

\* the step is a sweep of row r (column c) that ends without inconsistency
RowSwept(r) == pc = "rows" /\ idx = r /\ r < height /\ rows_to_check[r] /\ pc' = "rows"

ColSwept(c) == pc = "cols" /\ idx = c /\ c < width /\ cols_to_check[c] /\ pc' = "cols"

\* C14: the dirty flags.  All flags start true; a line is probed only while
\* its flag is true; a flag becomes false only at the end of a successful
\* sweep of its own line; it becomes true again only when the sweep of a
\* perpendicular line fixes one of the line's cells.  Hence a step that
\* changes a cell of a line, other than the line's own sweep, leaves the
\* line's flag true: a line whose flag is false has had no cell changed by a
\* perpendicular line since it was last probed.
C14_DirtyFlags ==
    /\ (\A r \in 0..(height - 1) : rows_to_check[r])
    /\ (\A c \in 0..(width - 1) : cols_to_check[c])
    /\ [][/\ \A r \in 0..(height - 1) :
              /\ hist'.row_probes[r] > hist.row_probes[r] => rows_to_check[r]
              /\ (rows_to_check[r] /\ ~rows_to_check'[r]) => RowSwept(r)
              /\ (~rows_to_check[r] /\ rows_to_check'[r]) =>
                    /\ ColSwept(idx)
                    /\ grid[r][idx] = 0 /\ grid'[r][idx] # 0
              /\ (RowLine(r)' # RowLine(r) /\ ~RowSwept(r)) => rows_to_check'[r]
           /\ \A c \in 0..(width - 1) :
              /\ hist'.col_probes[c] > hist.col_probes[c] => cols_to_check[c]
              /\ (cols_to_check[c] /\ ~cols_to_check'[c]) => ColSwept(c)
              /\ (~cols_to_check[c] /\ cols_to_check'[c]) =>
                    /\ RowSwept(idx)
                    /\ grid[idx][c] = 0 /\ grid'[idx][c] # 0
              /\ (ColLine(c)' # ColLine(c) /\ ~ColSwept(c)) => cols_to_check'[c]]_vars

\* while the columns are being swept, a row that was probed and found clean
\* is dirty again, next to a row that still is clean
C14_Witness ==
    /\ pc = "cols" /\ idx >= 1 /\ ~cols_to_check[idx - 1]
    /\ \E r, q \in 0..(height - 1) :
          /\ rows_to_check[r] /\ hist.row_probes[r] >= 1
          /\ ~rows_to_check[q] /\ hist.row_probes[q] >= 1

\* the number of Unknown cells of the grid
UnknownCells ==
    Cardinality({rc \in (0..(height - 1)) \X (0..(width - 1)) : grid[rc[1]][rc[2]] = 0})

\* C16: the grid is monotone and a sweep has a frame.  A successful sweep of
\* row r (column c) writes only cells of that line that were Unknown, each to
\* Filled or Empty, marks dirty exactly the perpendicular lines through the
\* cells it changed, clears only its own flag, and changes no other flag and
\* no clue; no other step changes a cell or a flag.  So a fixed cell never
\* changes and the number of Unknown cells never increases.
C16_SweepFrame ==
    [][/\ width' = width /\ height' = height
       /\ row_clues' = row_clues /\ col_clues' = col_clues
       /\ \A r \in 0..(height - 1), c \in 0..(width - 1) :
             grid'[r][c] # grid[r][c] =>
                /\ grid[r][c] = 0 /\ grid'[r][c] \in {1, -1}
                /\ RowSwept(r) \/ ColSwept(c)
       /\ \A r \in 0..(height - 1) : RowSwept(r) =>
             /\ rows_to_check' = [rows_to_check EXCEPT ![r] = FALSE]
             /\ \A c \in 0..(width - 1) :
                   cols_to_check'[c] = (cols_to_check[c] \/ grid'[r][c] # grid[r][c])
       /\ \A c \in 0..(width - 1) : ColSwept(c) =>
             /\ cols_to_check' = [cols_to_check EXCEPT ![c] = FALSE]
             /\ \A r \in 0..(height - 1) :
                   rows_to_check'[r] = (rows_to_check[r] \/ grid'[r][c] # grid[r][c])
       /\ ~(RowSwept(idx) \/ ColSwept(idx)) =>
             /\ grid' = grid
             /\ rows_to_check' = rows_to_check /\ cols_to_check' = cols_to_check
       /\ UnknownCells' <= UnknownCells]_vars

\* in the second pass the sweep of a row has fixed a cell: the column through
\* it is dirty again, another column still is clean
C16_Witness ==
    /\ pc = "rows" /\ idx >= 1 /\ hist.passes = 2 /\ hist.pass_fixed >= 1
    /\ ~rows_to_check[idx - 1] /\ hist.row_probes[idx - 1] = 2
    /\ \E c, d \in 0..(width - 1) :
          /\ cols_to_check[c] /\ grid[idx - 1][c] # 0
          /\ ~cols_to_check[d]

(***************************************************************************)
(* Properties of the search of has_solution, checked under SearchSpec.     *)
(***************************************************************************)
\* C13: the short-circuit rejection is sound.  Whenever the node (cursor, k)
\* popped satisfies the rejection rule (the cells from cursor on, the extra
\* cell at the end included, are fewer than the sum of length + 1 over the
\* blocks from k on), and has_solution returns false at once, the line has no
\* valid arrangement at all, whatever nodes are still on the stack.
C13_RejectSound ==
    lpc = "rejected" =>
        /\ result = FALSE
        /\ (LineLen(line) + 1) - search_node[1]
              < SumSeq(SubSeq(clues, search_node[2] + 1, Len(clues)))
                + (Len(clues) - search_node[2])
        /\ ~PlacementExists(line, clues)

\* a node other than the root is rejected while nodes are left on the stack,
\* on a line with a Filled cell
C13_Witness ==
    /\ lpc = "rejected" /\ result = FALSE
    /\ search_node # Root
    /\ search_stack # <<>>
    /\ \E i \in DOMAIN line : line[i] = 1

\* the blocks before block k can be placed, in order and with gaps, in the
\* cells before cell cursor - 1, so that they cover every Filled cell and no
\* Empty cell among the cells before cursor; cell cursor - 1 is covered by no
\* block, so it is not Filled
PartialPlacement(sl, cl, cursor, k) ==
    \E s \in Placements(cursor - 1, SubSeq(cl, 1, k)) :
        \A i \in 0..(cursor - 1) :
            /\ sl[i] = 1 => Covered(s, SubSeq(cl, 1, k), i)
            /\ sl[i] = -1 => ~Covered(s, SubSeq(cl, 1, k), i)

NodeOK(nd) ==
    /\ 0 <= nd[2] /\ nd[2] <= Len(clues)
    /\ 0 <= nd[1] /\ nd[1] <= LineLen(line) + 1
    /\ PartialPlacement(SolverLine(line), clues, nd[1], nd[2])
    /\ nd[2] > 0 => (nd[1] >= 1 /\ SolverLine(line)[nd[1] - 1] # 1)

\* C17: every node (cursor, k) that is ever on the stack has 0 <= k <= number
\* of clues and 0 <= cursor <= line length + 1, and stands for a valid partial
\* placement: the blocks 0 .. k-1 placed in order, with gaps, strictly before
\* cell cursor - 1, covering every Filled cell with index below cursor and no
\* Empty cell, with cell cursor - 1 not Filled when k > 0.  So no placement
\* that is generated skips a Filled cell without covering it.
C17_NodeInvariant ==
    /\ \A n \in 1..Len(search_stack) : NodeOK(search_stack[n])
    /\ NodeOK(search_node)

\* a node with two blocks placed, past a Filled and an Empty cell, is on the
\* stack
C17_Witness ==
    /\ lpc = "search"
    /\ \E n \in 1..Len(search_stack) :
          /\ search_stack[n][2] = 2
          /\ \E i, j \in 0..(search_stack[n][1] - 2) : line[i] = 1 /\ line[j] = -1

\* the number of nodes on the stack that have k blocks placed
AtDepth(stk, k) == Cardinality({n \in 1..Len(stk) : stk[n][2] = k})

\* C19: has_solution terminates.  Every child of a node (cursor, k) has block
\* index k + 1 and a strictly larger cursor; _children yields finitely many
\* children, with strictly ascending end positions; so each round of the loop
\* replaces a node by nodes that are deeper in a tree of bounded depth: the
\* numbers of stack entries per block index decrease in lexicographic order,
\* and the stack runs empty unless an accept or reject return comes first.
C19_SearchTerminates ==
    [][(lpc = "search" /\ search_stack # <<>>) =>
         \E ch \in {Children(SolverLine(line), clues, Popped)} :
            /\ Len(ch) <= LineLen(line) + 1
            /\ \A j \in 1..Len(ch) :
                  /\ ch[j][2] = Popped[2] + 1 /\ ch[j][2] <= Len(clues)
                  /\ ch[j][1] > Popped[1] /\ ch[j][1] <= LineLen(line) + 1
            /\ \A j \in 1..(Len(ch) - 1) : ch[j][1] < ch[j + 1][1]
            /\ \/ lpc' \in {"rejected", "accepted"}
               \/ \E k \in 0..Len(clues) :
                     /\ AtDepth(search_stack', k) < AtDepth(search_stack, k)
                     /\ \A j \in 0..(k - 1) :
                           AtDepth(search_stack', j) = AtDepth(search_stack, j)]_vars

\* the stack has run empty after the root, which has several children, was
\* expanded and the children were visited
C19_Witness ==
    /\ lpc = "exhausted" /\ search_stack = <<>>
    /\ search_node[2] >= 1
    /\ Len(Children(SolverLine(line), clues, Root)) >= 2

(***************************************************************************)
(* The 5 x 5 box, checked under FrameSpec.                                  *)
(***************************************************************************)
BoxRowClues == [r \in 0..4 |-> IF r \in {0, 4} THEN <<5>> ELSE <<1, 1, 1>>]

BoxColClues == [c \in 0..4 |-> IF c \in {0, 2, 4} THEN <<5>> ELSE <<1, 1>>]

IsBox == row_clues = BoxRowClues /\ col_clues = BoxColClues

\* rows 0 and 4 Filled; rows 1 to 3 Filled at columns 0, 2, 4, Empty at 1, 3
BoxPattern ==
    [r \in 0..4 |-> [c \in 0..4 |->
        IF r \in {0, 4} \/ c \in {0, 2, 4} THEN 1 ELSE -1]]

\* C11: for the 5 x 5 puzzle with row clues [5], [1,1,1], [1,1,1], [1,1,1],
\* [5] and column clues [5], [1,1], [5], [1,1], [5], solve() converges (it
\* ends within two passes) without reporting an inconsistency, and the grid
\* it leaves has no Unknown cell and is the box: rows 0 and 4 Filled, rows 1 to
\* 3 Filled at columns 0, 2 and 4 and Empty at columns 1 and 3.
C11_BoxSolved ==
    IsBox =>
        /\ pc # "inconsistent"
        /\ hist.passes <= 2
        /\ pc = "done" => (grid = BoxPattern /\ ~SomeUnknown)

\* the first solve() on the box puzzle has finished with the box
C11_Witness ==
    /\ IsBox /\ pc = "done" /\ hist.calls = 1
    /\ hist.call_probes = 10
    /\ grid = BoxPattern

(***************************************************************************)
(* Order independence, checked under AnySpec.                              *)
(***************************************************************************)
\* the line with every cell fixed that has the same value in all the valid
\* arrangements of the line
Forced(l, cl) ==
    [i \in DOMAIN l |->
        IF l[i] # 0 THEN l[i]
        ELSE IF \A a \in ValidArrangements(l, cl) : a[i] = 1 THEN 1
        ELSE IF \A a \in ValidArrangements(l, cl) : a[i] = -1 THEN -1
        ELSE 0]

RowsForced(g) ==
    [r \in 0..(height - 1) |->
        Forced([c \in 0..(width - 1) |-> g[r][c]], row_clues[r])]

ColsForced(g) ==
    [r \in 0..(height - 1) |-> [c \in 0..(width - 1) |->
        Forced([q \in 0..(height - 1) |-> g[q][c]], col_clues[c])[r]]]

SomeLineImpossible(g) ==
    \/ \E r \in 0..(height - 1) :
          ValidArrangements([c \in 0..(width - 1) |-> g[r][c]], row_clues[r]) = {}
    \/ \E c \in 0..(width - 1) :
          ValidArrangements([q \in 0..(height - 1) |-> g[q][c]], col_clues[c]) = {}

\* what line-by-line reasoning gives from grid g: ok is FALSE when it comes to
\* a line without valid arrangement, else grid is the grid with nothing left
\* to fix; it is defined by the meaning of the clues alone
RECURSIVE Closure(_)
Closure(g) ==
    IF SomeLineImpossible(g) THEN [ok |-> FALSE, grid |-> g]
    ELSE IF RowsForced(g) # g THEN Closure(RowsForced(g))
    ELSE IF ColsForced(g) # g THEN Closure(ColsForced(g))
    ELSE [ok |-> TRUE, grid |-> g]

\* C18: propagation is confluent.  From the all-Unknown grid with every line
\* marked, sweeping marked lines one at a time in any order until no line is
\* marked or a sweep reports an inconsistency gives the same verdict for
\* every order, and when no inconsistency is reported the same final grid as
\* solve(): each outcome, of any order and of solve(), is the one outcome
\* that the clues determine.
C18_OrderIndependent ==
    /\ pc \in {"any_inconsistent", "inconsistent"} =>
          ~Closure(Array(height, Array(width, 0))).ok
    /\ pc \in {"any_done", "done"} =>
          Closure(Array(height, Array(width, 0))) = [ok |-> TRUE, grid |-> grid]

\* a run that swept a column first has ended without inconsistency on a grid
\* of full size, with cells fixed and cells left Unknown
C18_Witness ==
    /\ pc = "any_done" /\ hist.first_probe = "col"
    /\ height = MaxDim /\ width = MaxDim
    /\ SomeFixed

====
